---- MODULE Spec2Model ----
(***************************************************************************)
(* Schelling segregation model (schelling.py): Person, Home and City.      *)
(*                                                                         *)
(* A Home is named by its address <<x, y>>; a Person by its position in    *)
(* City.people (1-based).  Fractions (breakdown entries and the happiness  *)
(* threshold) are exact rationals [num, den]; the breakdown entries used   *)
(* have a power-of-two denominator, so the float product of line 183 is    *)
(* exact and int() is the floor of the rational product.                   *)
(* An uncaught Python exception ends the run: pc = "fault", with the       *)
(* exception's name in fault.                                              *)
(***************************************************************************)
EXTENDS Integers, Sequences, FiniteSets, TLC

VARIABLES
    nx, ny, ngroups, breakdown, happiness_threshold, \* City attributes
    homes,          \* City.homes: address -> [occupant, neighbors_list]
    people,         \* City.people: sequence of [group, home, happiness_threshold]
    empty_homes,    \* City.empty_homes: sequence of addresses
    pc,             \* where the run is
    i, p,           \* populate_homes: loop variables of lines 182 and 184
    idx,            \* move_unhappy: position of the for loop of line 211 in people
    n_unhappy,      \* move_unhappy: its local n_unhappy
    plots_n_unhappy,\* make_plots: its local n_unhappy
    counter,        \* make_plots: its local counter
    caller,         \* who called the running move_unhappy
    ret,            \* value returned by the last completed move_unhappy (-1: none yet)
    calls,          \* number of direct move_unhappy() calls made after make_plots
    fault           \* "none" or the name of the uncaught exception

vars == <<nx, ny, ngroups, breakdown, happiness_threshold, homes, people,
          empty_homes, pc, i, p, idx, n_unhappy, plots_n_unhappy, counter,
          caller, ret, calls, fault>>

city == <<nx, ny, ngroups, breakdown, happiness_threshold>>

(***************************************************************************)
(* Bounds of the model and the inputs drawn in Init.                       *)
(***************************************************************************)
MaxCells == 4
MaxGroups == 2
MaxCalls == 2
MaxSide == 3
MaxNegative == 1

Fractions == {[num |-> 1, den |-> 4], [num |-> 1, den |-> 2], [num |-> 3, den |-> 4]}
Thresholds == {[num |-> 3, den |-> 10], [num |-> 1, den |-> 2]}
SparseFractions == {[num |-> 1, den |-> 4]}

(***************************************************************************)
(* Program constants and values.                                           *)
(***************************************************************************)
None == 0          \* Home.occupant of a vacant home
NoHome == <<>>     \* Person.home before the first move
MaxSteps == 100    \* the step bound of make_plots
Unset == 999       \* make_plots' initial n_unhappy

(***************************************************************************)
(* Helpers.                                                                *)
(***************************************************************************)
\* list.pop(k) leaves the list without its k-th element (1-based here).
Pop(s, k) == [n \in 1..(Len(s) - 1) |-> IF n < k THEN s[n] ELSE s[n + 1]]

\* len(range(n)) with a negative n taken for a length
RangeLenAbs(n) == IF n > 0 THEN n ELSE -n

\* len(range(n)): range(n) is empty for n <= 0
RangeLen(n) == IF n > 0 THEN n ELSE 0

\* The addresses in the order City.__init__ creates the homes.
Addresses(w, h) ==
    [n \in 1..(RangeLen(w) * RangeLen(h)) |->
        <<(n - 1) \div RangeLen(h), (n - 1) % RangeLen(h)>>]

\* line 183 rounding up
NPeopleCeil(f, ncells) == (f.num * ncells + f.den - 1) \div f.den

\* int(breakdown[i] * len(self.homes))
NPeople(f, ncells) == (f.num * ncells) \div f.den

(***************************************************************************)
(* Person.move                                                             *)
(***************************************************************************)
\* move without lines 68-69
moveNoClear(H, P, k, new_home) ==
    [homes  |-> [H EXCEPT ![new_home].occupant = k],
     people |-> [P EXCEPT ![k].home = new_home]]

\* move with the old home cleared last, through self.home, which is new_home by then
moveClearLast(H, P, k, new_home) ==
    [homes  |-> IF P[k].home # NoHome
                THEN [H EXCEPT ![new_home].occupant = None]
                ELSE [H EXCEPT ![new_home].occupant = k],
     people |-> [P EXCEPT ![k].home = new_home]]

move(H, P, k, new_home) ==
    LET H1 == IF P[k].home # NoHome
              THEN [H EXCEPT ![P[k].home].occupant = None]
              ELSE H
    IN  [homes  |-> [H1 EXCEPT ![new_home].occupant = k],
         people |-> [P EXCEPT ![k].home = new_home]]

(***************************************************************************)
(* Person.is_unhappy                                                       *)
(***************************************************************************)
RECURSIVE CountNeighbors(_, _, _, _, _)
\* the loop of lines 43-48 over the neighbors_list l, from position n on
CountNeighbors(H, P, k, l, n) ==
    IF n > Len(l) THEN [same |-> 0, diff |-> 0]
    ELSE LET rest == CountNeighbors(H, P, k, l, n + 1)
             occ  == H[l[n]].occupant
         IN  IF occ = None THEN rest
             ELSE IF P[occ].group = P[k].group
                  THEN [rest EXCEPT !.same = @ + 1]
                  ELSE [rest EXCEPT !.diff = @ + 1]

\* line 51 with <= for <
RatioBelowOrEqual(number_same, number_diff, t) ==
    number_same * t.den <= t.num * (number_diff + number_same)

\* float(number_same)/(number_diff+number_same) < t, for a non-zero divisor
RatioBelow(number_same, number_diff, t) ==
    number_same * t.den < t.num * (number_diff + number_same)

\* the exception raised by line 50, or the boolean returned by line 51
is_unhappy(H, P, k) ==
    LET c == CountNeighbors(H, P, k, H[P[k].home].neighbors_list, 1)
    IN  IF c.diff + c.same = 0 THEN "ZeroDivisionError"
        ELSE IF RatioBelow(c.same, c.diff, P[k].happiness_threshold)
             THEN "True" ELSE "False"

(***************************************************************************)
(* City.__init__, lines 124-138: the attributes and the grid of homes.     *)
(***************************************************************************)
\* lines 125-132, and the locals of the methods not yet called
Created ==
    /\ homes = [a \in {Addresses(nx, ny)[n] : n \in DOMAIN Addresses(nx, ny)} |->
                   [occupant |-> None, neighbors_list |-> <<>>]]
    /\ people = <<>>
    /\ empty_homes = <<>>
    /\ pc = "populate_homes"
    /\ i = 0
    /\ p = 0
    /\ idx = 0
    /\ n_unhappy = 0
    /\ plots_n_unhappy = 0
    /\ counter = 0
    /\ caller = "none"
    /\ ret = -1
    /\ calls = 0
    /\ fault = "none"

\* small grids of non-negative dimensions, any breakdown
Init ==
    /\ nx \in 0..MaxCells
    /\ ny \in 0..MaxCells
    /\ nx * ny <= MaxCells
    /\ ngroups \in 1..MaxGroups
    /\ breakdown \in [1..ngroups -> Fractions]
    /\ happiness_threshold \in Thresholds
    /\ Created

\* grids of up to MaxSide by MaxSide homes, sparsely populated by one group
InitGrid ==
    /\ nx \in 0..MaxSide
    /\ ny \in 0..MaxSide
    /\ ngroups = 1
    /\ breakdown \in [1..ngroups -> SparseFractions]
    /\ happiness_threshold \in Thresholds
    /\ Created

\* small grids whose dimensions may be negative, any breakdown
InitSigned ==
    /\ nx \in (0 - MaxNegative)..MaxCells
    /\ ny \in (0 - MaxNegative)..MaxCells
    /\ RangeLen(nx) * RangeLen(ny) <= MaxCells
    /\ ngroups \in 1..MaxGroups
    /\ breakdown \in [1..ngroups -> Fractions]
    /\ happiness_threshold \in Thresholds
    /\ Created

(***************************************************************************)
(* City.populate_homes                                                     *)
(***************************************************************************)
\* lines 178-179
PopulateFill ==
    /\ pc = "populate_homes"
    /\ empty_homes' = empty_homes \o Addresses(nx, ny)
    /\ i' = 0
    /\ p' = 0
    /\ pc' = "populate_loop"
    /\ UNCHANGED <<city, homes, people, idx, n_unhappy, plots_n_unhappy,
                   counter, caller, ret, calls, fault>>

\* lines 185-188, one iteration of the inner loop
PopulatePlace ==
    /\ pc = "populate_loop"
    /\ i < ngroups
    /\ p < NPeople(breakdown[i + 1], Cardinality(DOMAIN homes))
    /\ Len(empty_homes) > 0
    /\ \E r \in 1..Len(empty_homes) :
         LET home   == empty_homes[r]
             person == [group |-> i, home |-> NoHome,
                        happiness_threshold |-> happiness_threshold]
             P1     == Append(people, person)
             m      == move(homes, P1, Len(P1), home)
         IN  /\ empty_homes' = Pop(empty_homes, r)
             /\ people' = m.people
             /\ homes' = [m.homes EXCEPT ![home].occupant = Len(P1)]
    /\ p' = p + 1
    /\ UNCHANGED <<city, pc, i, idx, n_unhappy, plots_n_unhappy, counter,
                   caller, ret, calls, fault>>

\* line 185 with no empty home left: random.randrange(0) raises ValueError
PopulateFault ==
    /\ pc = "populate_loop"
    /\ i < ngroups
    /\ p < NPeople(breakdown[i + 1], Cardinality(DOMAIN homes))
    /\ Len(empty_homes) = 0
    /\ pc' = "fault"
    /\ fault' = "ValueError"
    /\ UNCHANGED <<city, homes, people, empty_homes, i, p, idx, n_unhappy,
                   plots_n_unhappy, counter, caller, ret, calls>>

\* the inner loop of line 184 is exhausted: next group
PopulateNextGroup ==
    /\ pc = "populate_loop"
    /\ i < ngroups
    /\ p >= NPeople(breakdown[i + 1], Cardinality(DOMAIN homes))
    /\ i' = i + 1
    /\ p' = 0
    /\ UNCHANGED <<city, homes, people, empty_homes, pc, idx, n_unhappy,
                   plots_n_unhappy, counter, caller, ret, calls, fault>>

\* the loop of line 182 is exhausted: populate_homes returns
PopulateReturn ==
    /\ pc = "populate_loop"
    /\ i >= ngroups
    /\ pc' = "find_neighbors"
    /\ UNCHANGED <<city, homes, people, empty_homes, i, p, idx, n_unhappy,
                   plots_n_unhappy, counter, caller, ret, calls, fault>>

(***************************************************************************)
(* City.find_neighbors                                                     *)
(***************************************************************************)
\* the addresses visited by the loops of lines 154-155, in their order
Around(a) == [n \in 1..9 |-> <<a[1] - 1 + ((n - 1) \div 3), a[2] - 1 + ((n - 1) % 3)>>]

\* lines 156-158 without the test (x,y) != (home.x,home.y)
NeighborsOfWithSelf(H, a) ==
    LET Exists(b) == b \in DOMAIN H
    IN  SelectSeq(Around(a), Exists)

\* the neighbors appended to the home at address a (lines 156-158)
NeighborsOf(H, a) ==
    LET Exists(b) == b \in DOMAIN H /\ b # a
    IN  SelectSeq(Around(a), Exists)

find_neighbors ==
    /\ pc = "find_neighbors"
    /\ homes' = [a \in DOMAIN homes |->
                   [homes[a] EXCEPT !.neighbors_list = @ \o NeighborsOf(homes, a)]]
    /\ pc' = "constructed"
    /\ UNCHANGED <<city, people, empty_homes, i, p, idx, n_unhappy,
                   plots_n_unhappy, counter, caller, ret, calls, fault>>

(***************************************************************************)
(* City.move_unhappy                                                       *)
(***************************************************************************)
\* line 213 without the increment
CountedNot(n) == n

\* line 213 counting the person twice
CountedTwice(n) == n + 2

\* line 213
Counted(n) == n + 1

\* lines 214-216 with line 215 left out
RelocateNoAppend(H, P, E, k, r) ==
    LET m == move(H, P, k, E[r])
    IN  [homes |-> m.homes, people |-> m.people, empty_homes |-> Pop(E, r)]

\* lines 214-216 followed by a second run of lines 154-158 over all homes
RelocateRefind(H, P, E, k, r) ==
    LET m == move(H, P, k, E[r])
    IN  [homes |-> [a \in DOMAIN H |->
                      [m.homes[a] EXCEPT !.neighbors_list = @ \o NeighborsOf(H, a)]],
         people |-> m.people,
         empty_homes |-> Append(Pop(E, r), P[k].home)]

\* lines 214-216 with lines 215 and 216 exchanged: person.home is new_home by then
RelocateMoveFirst(H, P, E, k, r) ==
    LET m == move(H, P, k, E[r])
    IN  [homes |-> m.homes, people |-> m.people,
         empty_homes |-> Append(Pop(E, r), m.people[k].home)]

\* lines 214-216 with a new Person made for the new home instead of person.move
RelocateRecreate(H, P, E, k, r) ==
    LET P1 == Append(P, [P[k] EXCEPT !.home = NoHome])
        m  == move([H EXCEPT ![P[k].home].occupant = None], P1, Len(P1), E[r])
    IN  [homes |-> m.homes, people |-> m.people,
         empty_homes |-> Append(Pop(E, r), P[k].home)]

\* lines 214-216 with the random index r
Relocate(H, P, E, k, r) ==
    LET new_home == E[r]
        E1 == Pop(E, r)
        E2 == Append(E1, P[k].home)
        m  == move(H, P, k, new_home)
    IN  [homes |-> m.homes, people |-> m.people, empty_homes |-> E2]

\* one iteration of the loop of line 211 for a person who is happy
StepHappy ==
    /\ pc = "move_unhappy"
    /\ idx <= Len(people)
    /\ is_unhappy(homes, people, idx) = "False"
    /\ idx' = idx + 1
    /\ UNCHANGED <<city, homes, people, empty_homes, pc, i, p, n_unhappy,
                   plots_n_unhappy, counter, caller, ret, calls, fault>>

\* one iteration for a person who is unhappy: lines 213-216
StepMove ==
    /\ pc = "move_unhappy"
    /\ idx <= Len(people)
    /\ is_unhappy(homes, people, idx) = "True"
    /\ Len(empty_homes) > 0
    /\ n_unhappy' = Counted(n_unhappy)
    /\ \E r \in 1..Len(empty_homes) :
         LET m == Relocate(homes, people, empty_homes, idx, r)
         IN  /\ homes' = m.homes
             /\ people' = m.people
             /\ empty_homes' = m.empty_homes
    /\ idx' = idx + 1
    /\ UNCHANGED <<city, pc, i, p, plots_n_unhappy, counter, caller, ret,
                   calls, fault>>

\* line 50 with no occupied neighbor: float(0)/0 raises ZeroDivisionError
StepZeroDivision ==
    /\ pc = "move_unhappy"
    /\ idx <= Len(people)
    /\ is_unhappy(homes, people, idx) = "ZeroDivisionError"
    /\ pc' = "fault"
    /\ fault' = "ZeroDivisionError"
    /\ UNCHANGED <<city, homes, people, empty_homes, i, p, idx, n_unhappy,
                   plots_n_unhappy, counter, caller, ret, calls>>

\* lines 213-214 with no empty home: random.randrange(0) raises ValueError
StepNoEmptyHome ==
    /\ pc = "move_unhappy"
    /\ idx <= Len(people)
    /\ is_unhappy(homes, people, idx) = "True"
    /\ Len(empty_homes) = 0
    /\ n_unhappy' = Counted(n_unhappy)
    /\ pc' = "fault"
    /\ fault' = "ValueError"
    /\ UNCHANGED <<city, homes, people, empty_homes, i, p, idx,
                   plots_n_unhappy, counter, caller, ret, calls>>

\* line 217, returning into make_plots (line 256) or to the direct caller
MoveUnhappyReturn ==
    /\ pc = "move_unhappy"
    /\ idx > Len(people)
    /\ ret' = n_unhappy
    /\ IF caller = "make_plots"
       THEN /\ plots_n_unhappy' = n_unhappy
            /\ pc' = "while"
       ELSE /\ plots_n_unhappy' = plots_n_unhappy
            /\ pc' = "done"
    /\ UNCHANGED <<city, homes, people, empty_homes, i, p, idx, n_unhappy,
                   counter, caller, calls, fault>>

(***************************************************************************)
(* City.make_plots (plotting and file handling left out)                   *)
(***************************************************************************)
\* lines 251-252
make_plots ==
    /\ pc = "constructed"
    /\ plots_n_unhappy' = Unset
    /\ counter' = 0
    /\ pc' = "while"
    /\ UNCHANGED <<city, homes, people, empty_homes, i, p, idx, n_unhappy,
                   caller, ret, calls, fault>>

\* line 253 with <= for <
ContinueOffByOne(n, c) == n > 0 /\ c <= MaxSteps

\* the test of line 253
Continue(n, c) == n > 0 /\ c < MaxSteps

\* lines 253-256: the test holds, the step begins (line 210)
WhileEnter ==
    /\ pc = "while"
    /\ Continue(plots_n_unhappy, counter)
    /\ counter' = counter + 1
    /\ n_unhappy' = 0
    /\ idx' = 1
    /\ caller' = "make_plots"
    /\ pc' = "move_unhappy"
    /\ UNCHANGED <<city, homes, people, empty_homes, i, p, plots_n_unhappy,
                   ret, calls, fault>>

\* line 253: the test fails, make_plots returns
WhileExit ==
    /\ pc = "while"
    /\ ~Continue(plots_n_unhappy, counter)
    /\ pc' = "done"
    /\ UNCHANGED <<city, homes, people, empty_homes, i, p, idx, n_unhappy,
                   plots_n_unhappy, counter, caller, ret, calls, fault>>

(***************************************************************************)
(* A further city.move_unhappy() by the code that owns the city, after     *)
(* make_plots has returned.                                                *)
(***************************************************************************)
DirectCall ==
    /\ pc = "done"
    /\ calls < MaxCalls
    /\ calls' = calls + 1
    /\ n_unhappy' = 0
    /\ idx' = 1
    /\ caller' = "direct"
    /\ pc' = "move_unhappy"
    /\ UNCHANGED <<city, homes, people, empty_homes, i, p, plots_n_unhappy,
                   counter, ret, fault>>

Next ==
    \/ PopulateFill
    \/ PopulatePlace
    \/ PopulateFault
    \/ PopulateNextGroup
    \/ PopulateReturn
    \/ find_neighbors
    \/ make_plots
    \/ WhileEnter
    \/ WhileExit
    \/ StepHappy
    \/ StepMove
    \/ StepZeroDivision
    \/ StepNoEmptyHome
    \/ MoveUnhappyReturn
    \/ DirectCall

Spec == Init /\ [][Next]_vars

\* the same run, for a city whose dimensions may be negative
SpecSigned == InitSigned /\ [][Next]_vars

\* City.__init__ alone (lines 124-143) on the larger grids; with one group
\* that asks for a quarter of the homes, line 185 always finds an empty home
Construct ==
    \/ PopulateFill
    \/ PopulatePlace
    \/ PopulateNextGroup
    \/ PopulateReturn
    \/ find_neighbors

SpecGrid == InitGrid /\ [][Construct]_vars

(***************************************************************************)
(* Vocabulary of the properties, stated on the state alone.                *)
(***************************************************************************)
\* construction has completed (City.__init__ returned) and nothing faulted since
Constructed == pc \in {"constructed", "while", "move_unhappy", "done"}

\* an uncaught exception left move_unhappy (idx is 0 until the first pass)
StepFaulted == pc = "fault" /\ idx > 0

Occupied == {a \in DOMAIN homes : homes[a].occupant # None}

Listed == {empty_homes[n] : n \in 1..Len(empty_homes)}

\* b is one of the up to eight cells around a
Adjacent(a, b) ==
    /\ a # b
    /\ a[1] - b[1] \in {-1, 0, 1}
    /\ a[2] - b[2] \in {-1, 0, 1}

\* occupied homes around person k's home, of k's group and of another group
SameAround(k) ==
    Cardinality({a \in Occupied : /\ Adjacent(a, people[k].home)
                                  /\ people[homes[a].occupant].group = people[k].group})

DiffAround(k) ==
    Cardinality({a \in Occupied : /\ Adjacent(a, people[k].home)
                                  /\ people[homes[a].occupant].group # people[k].group})

\* a relocation has been made in the running pass
Relocated == pc = "move_unhappy" /\ n_unhappy > 0 /\ idx > 1

(***************************************************************************)
(* C1. Partition: once empty_homes has been filled, and so after            *)
(* construction and after every relocation of every move_unhappy pass,     *)
(* every home is either occupied or listed in empty_homes, never both; no  *)
(* home is listed twice; occupied homes plus len(empty_homes) is nx*ny.    *)
(***************************************************************************)
C1_Partition ==
    pc # "populate_homes" =>
        /\ Occupied \cup Listed = DOMAIN homes
        /\ Occupied \cap Listed = {}
        /\ Cardinality(Listed) = Len(empty_homes)
        /\ Cardinality(Occupied) + Len(empty_homes) = nx * ny

\* a pass has relocated somebody in a city with occupied and vacant homes
C1_Witness == Relocated /\ Occupied # {} /\ Listed # {}

(***************************************************************************)
(* C2. Bidirectional consistency: every occupied home's occupant has that  *)
(* home as its home, and every person's home has that person as occupant;  *)
(* so no two persons share a home.                                         *)
(***************************************************************************)
C2_Bidirectional ==
    /\ \A a \in Occupied :
          /\ homes[a].occupant \in 1..Len(people)
          /\ people[homes[a].occupant].home = a
    /\ \A k \in 1..Len(people) :
          /\ people[k].home \in DOMAIN homes
          /\ homes[people[k].home].occupant = k
    /\ \A j, k \in 1..Len(people) : j # k => people[j].home # people[k].home

\* a pass has relocated somebody and at least two persons exist
C2_Witness == Relocated /\ Len(people) >= 2

(***************************************************************************)
(* C3. Degenerate happiness evaluation: when the person whose turn it is   *)
(* has no occupied neighbour, the evaluation raises nothing and the person *)
(* is treated as happy: it stays, is not counted, and the pass goes on.    *)
(***************************************************************************)
C3_DegenerateIsHappy ==
    [][(/\ pc = "move_unhappy"
        /\ idx <= Len(people)
        /\ SameAround(idx) + DiffAround(idx) = 0)
       => (/\ fault' = "none"
           /\ pc' = "move_unhappy"
           /\ idx' = idx + 1
           /\ n_unhappy' = n_unhappy
           /\ people' = people)]_vars

(***************************************************************************)
(* C4. Empty vacancy pool: when the person whose turn it is is unhappy and *)
(* empty_homes is empty, the step does not crash: the person stays, is     *)
(* counted as unhappy, and homes, people and empty_homes are unchanged.    *)
(***************************************************************************)
C4_EmptyPoolDegrades ==
    [][(/\ pc = "move_unhappy"
        /\ idx <= Len(people)
        /\ is_unhappy(homes, people, idx) = "True"
        /\ empty_homes = <<>>)
       => (/\ fault' = "none"
           /\ pc' = "move_unhappy"
           /\ n_unhappy' = n_unhappy + 1
           /\ homes' = homes
           /\ people' = people
           /\ empty_homes' = empty_homes)]_vars

(***************************************************************************)
(* C5. Seeding validation: in a configuration whose breakdown sums above 1 *)
(* or in which a group's count exceeds the vacant cells left when it is    *)
(* seeded, construction fails: no city is ever constructed.                *)
(***************************************************************************)
RECURSIVE SumBreakdown(_)
\* the sum of breakdown[1..n], as a fraction
SumBreakdown(n) ==
    IF n = 0 THEN [num |-> 0, den |-> 1]
    ELSE LET s == SumBreakdown(n - 1)
             f == breakdown[n]
         IN  [num |-> s.num * f.den + f.num * s.den, den |-> s.den * f.den]

RECURSIVE Requested(_)
\* the number of persons the groups 0..n-1 ask for: the sum of the floors
Requested(n) ==
    IF n = 0 THEN 0
    ELSE Requested(n - 1) + ((breakdown[n].num * nx * ny) \div breakdown[n].den)

InvalidSeeding ==
    \/ SumBreakdown(ngroups).num > SumBreakdown(ngroups).den
    \/ Requested(ngroups) > nx * ny

C5_SeedingValidated == (nx > 0 /\ ny > 0 /\ InvalidSeeding) => ~Constructed

(***************************************************************************)
(* C6. Step loop of a seeded city with vacant homes: no step faults, at    *)
(* most 100 steps run, and when make_plots has returned either every       *)
(* person is happy or exactly 100 steps were run.                          *)
(***************************************************************************)
AllHappy == \A k \in 1..Len(people) : is_unhappy(homes, people, k) = "False"

C6_StepLoopPostcondition ==
    (people # <<>> /\ empty_homes # <<>>) =>
        /\ ~StepFaulted
        /\ counter <= 100
        /\ (pc = "done" /\ calls = 0) => (AllHappy \/ counter = 100)

(***************************************************************************)
(* C7. Loop stopping rule of make_plots: a step after the first runs only  *)
(* when the step before it relocated somebody; never more than 100 steps   *)
(* run; at least one step has run when the loop is left; and the loop is   *)
(* left only after a step that relocated nobody or after step 100.         *)
(***************************************************************************)
C7_StoppingRule ==
    /\ Constructed => counter <= 100
    /\ (pc = "move_unhappy" /\ caller = "make_plots" /\ counter > 1)
          => plots_n_unhappy > 0
    /\ (pc = "while" /\ counter >= 1) => plots_n_unhappy = ret
    /\ pc = "done" =>
          /\ counter >= 1
          /\ plots_n_unhappy = 0 \/ counter = 100
          /\ calls = 0 => plots_n_unhappy = ret

\* make_plots has returned after step 100, whose pass relocated somebody
C7_Witness == pc = "done" /\ calls = 0 /\ counter = 100 /\ ret > 0

(***************************************************************************)
(* C8. Idempotence of convergence: once a move_unhappy step has returned   *)
(* zero, nothing faults, every later step returns zero, and no home's      *)
(* occupant, no person's home and no entry of empty_homes changes.         *)
(***************************************************************************)
C8_ConvergenceIsStable ==
    [][ret = 0 => (/\ ret' = 0
                   /\ fault' = "none"
                   /\ homes' = homes
                   /\ people' = people
                   /\ empty_homes' = empty_homes)]_vars

\* a whole further pass over a populated city has run after a step returned zero
C8_Witness ==
    /\ pc = "done"
    /\ plots_n_unhappy = 0
    /\ calls >= 1
    /\ ret = 0
    /\ Len(people) >= 2

(***************************************************************************)
(* C9. Seeding counts: in a constructed city, group g has exactly          *)
(* floor(breakdown[g] * nx * ny) persons, all persons live in distinct     *)
(* homes, none of them listed in empty_homes, and len(empty_homes) is      *)
(* nx*ny minus the number of persons.                                      *)
(***************************************************************************)
GroupSize(g) == Cardinality({k \in 1..Len(people) : people[k].group = g})

C9_SeedingCounts ==
    Constructed =>
        /\ \A g \in 0..(ngroups - 1) :
              GroupSize(g) = (breakdown[g + 1].num * nx * ny) \div breakdown[g + 1].den
        /\ \A k \in 1..Len(people) : people[k].group \in 0..(ngroups - 1)
        /\ \A j, k \in 1..Len(people) : j # k => people[j].home # people[k].home
        /\ \A k \in 1..Len(people) : people[k].home \notin Listed
        /\ Len(empty_homes) = nx * ny - Len(people)

\* construction just completed with two groups, one of whose counts is rounded down
C9_Witness ==
    /\ pc = "constructed"
    /\ ngroups = 2
    /\ GroupSize(0) > 0
    /\ GroupSize(1) > 0
    /\ empty_homes # <<>>
    /\ \E g \in 1..ngroups : (breakdown[g].num * nx * ny) % breakdown[g].den # 0

(***************************************************************************)
(* C10. Happiness rule: the person whose turn it is, when it has at least  *)
(* one occupied neighbour, is counted unhappy iff                          *)
(* same / (same + diff) < happiness_threshold, same and diff counting the  *)
(* occupied homes around its home; at equality it is happy, as with 3      *)
(* same, 7 different and threshold 0.3.                                    *)
(***************************************************************************)
BelowThreshold(k) ==
    SameAround(k) * people[k].happiness_threshold.den
        < people[k].happiness_threshold.num * (SameAround(k) + DiffAround(k))

AtThreshold(k) ==
    /\ SameAround(k) + DiffAround(k) > 0
    /\ SameAround(k) * people[k].happiness_threshold.den
        = people[k].happiness_threshold.num * (SameAround(k) + DiffAround(k))

C10_HappinessRule ==
    [][/\ (/\ pc = "move_unhappy"
           /\ idx <= Len(people)
           /\ SameAround(idx) + DiffAround(idx) > 0)
          => /\ (n_unhappy' = n_unhappy + 1) <=> BelowThreshold(idx)
             /\ (n_unhappy' = n_unhappy) <=> ~BelowThreshold(idx)
             /\ ~BelowThreshold(idx) => people' = people
       /\ ~RatioBelow(3, 7, [num |-> 3, den |-> 10])]_vars

\* the first person of the pass was evaluated exactly at its threshold and stayed
C10_Witness ==
    /\ pc = "move_unhappy"
    /\ idx = 2
    /\ n_unhappy = 0
    /\ AtThreshold(1)
    /\ DiffAround(1) > 0
    /\ \E a \in Listed : Adjacent(a, people[1].home)

(***************************************************************************)
(* C11. Adjacency correctness: in a constructed city the homes are the     *)
(* addresses of the nx by ny rectangle, and every home's neighbors_list    *)
(* holds, exactly once each, the homes other than itself whose x and y     *)
(* differ from its own by at most 1 (no wraparound); so in a 3x3 grid the  *)
(* centre has 8 neighbours and each corner 3.                              *)
(***************************************************************************)
Rectangle == (0..(nx - 1)) \X (0..(ny - 1))

Elements(l) == {l[n] : n \in 1..Len(l)}

C11_Adjacency ==
    Constructed =>
        /\ DOMAIN homes = Rectangle
        /\ \A a \in DOMAIN homes :
              /\ Elements(homes[a].neighbors_list) = {b \in Rectangle : Adjacent(a, b)}
              /\ Cardinality(Elements(homes[a].neighbors_list))
                    = Len(homes[a].neighbors_list)
        /\ (nx = 3 /\ ny = 3) =>
              /\ Len(homes[<<1, 1>>].neighbors_list) = 8
              /\ \A a \in {<<0, 0>>, <<0, 2>>, <<2, 0>>, <<2, 2>>} :
                    Len(homes[a].neighbors_list) = 3

\* a populated 3x3 city has been constructed
C11_Witness ==
    /\ pc = "constructed"
    /\ nx = 3
    /\ ny = 3
    /\ people # <<>>
    /\ Len(homes[<<1, 1>>].neighbors_list) = 8
    /\ Len(homes[<<0, 0>>].neighbors_list) = 3
    /\ Len(homes[<<0, 1>>].neighbors_list) = 5

(***************************************************************************)
(* C12. In-pass visibility and ordering: a pass starts at the first person *)
(* and takes the persons in the order of the people list, one per turn,    *)
(* and only the person whose turn it is may move; that person is judged    *)
(* against where every person lives now, earlier moves of the same pass    *)
(* included; its destination comes from the vacancy pool as it is now, and *)
(* the home it leaves is in the pool from then on, so a later person of    *)
(* the same pass can be given it.                                          *)
(***************************************************************************)
\* it is the turn of person idx
Turn == pc = "move_unhappy" /\ idx <= Len(people)

\* the other persons living around person k, by the persons' own home fields
SameByPeople(k) ==
    Cardinality({j \in 1..Len(people) : /\ j # k
                                        /\ Adjacent(people[j].home, people[k].home)
                                        /\ people[j].group = people[k].group})

DiffByPeople(k) ==
    Cardinality({j \in 1..Len(people) : /\ j # k
                                        /\ Adjacent(people[j].home, people[k].home)
                                        /\ people[j].group # people[k].group})

C12_InPassVisibility ==
    [][/\ (pc # "move_unhappy" /\ pc' = "move_unhappy") => idx' = 1
       /\ Turn =>
            /\ pc' = "move_unhappy" => idx' = idx + 1
            /\ Len(people') = Len(people)
            /\ \A k \in 1..Len(people) : k # idx => people'[k] = people[k]
            /\ SameByPeople(idx) + DiffByPeople(idx) > 0 =>
                  ((n_unhappy' = n_unhappy + 1) <=>
                      (SameByPeople(idx) * people[idx].happiness_threshold.den
                         < people[idx].happiness_threshold.num
                             * (SameByPeople(idx) + DiffByPeople(idx))))
            /\ people'[idx].home # people[idx].home =>
                  /\ people'[idx].home \in Listed
                  /\ people[idx].home \in Listed']_vars

\* with a single vacant home, the second person to move in a pass has been
\* given the home the first one left in that pass
C12_Witness ==
    /\ pc = "move_unhappy"
    /\ Len(empty_homes) = 1
    /\ n_unhappy >= 2

(***************************************************************************)
(* C13. Relocation effect and frame: when a placed person moves, its old   *)
(* home's occupant becomes None, the new home's occupant becomes that      *)
(* person and the person's home becomes the new home; no other home's      *)
(* occupant, no neighbors_list, no other person, and no group or threshold *)
(* changes.  When a person without a home is given one (seeding), only     *)
(* the new home's occupant and the new person's home are set.              *)
(***************************************************************************)
\* H1 is H but for the occupants of the homes in the set S
SameBut(H, H1, S) ==
    /\ DOMAIN H1 = DOMAIN H
    /\ \A a \in DOMAIN H :
          /\ H1[a].neighbors_list = H[a].neighbors_list
          /\ a \notin S => H1[a].occupant = H[a].occupant

C13_MoveEffectAndFrame ==
    [][/\ (Turn /\ pc' = "move_unhappy" /\ n_unhappy' = n_unhappy + 1) =>
            LET old == people[idx].home
                new == people'[idx].home
            IN  /\ new # old
                /\ new \in DOMAIN homes
                /\ homes[new].occupant = None
                /\ homes'[old].occupant = None
                /\ homes'[new].occupant = idx
                /\ SameBut(homes, homes', {old, new})
                /\ people' = [people EXCEPT ![idx].home = new]
       /\ (pc = "populate_loop" /\ Len(people') # Len(people)) =>
            LET k   == Len(people) + 1
                new == people'[k].home
            IN  /\ Len(people') = k
                /\ \A j \in 1..Len(people) : people'[j] = people[j]
                /\ people'[k].group = i
                /\ people'[k].happiness_threshold = happiness_threshold
                /\ new \in DOMAIN homes
                /\ homes[new].occupant = None
                /\ homes'[new].occupant = k
                /\ SameBut(homes, homes', {new})]_vars

\* a placed person has moved in a pass over at least three persons
C13_Witness == Relocated /\ Len(people) >= 3 /\ Listed # {}

(***************************************************************************)
(* C14. Step return value: a pass starts counting at zero; on each turn    *)
(* the count goes up by one exactly when the person is found unhappy, and  *)
(* then that person, and nobody else, is relocated; otherwise nothing      *)
(* moves.  Every person has one turn per pass, so the value returned is    *)
(* the number of persons found unhappy, which is the number of             *)
(* relocations of the pass, and lies between 0 and len(people).            *)
(***************************************************************************)
C14_ReturnValue ==
    [][/\ (pc # "move_unhappy" /\ pc' = "move_unhappy") =>
            (n_unhappy' = 0 /\ idx' = 1)
       /\ pc = "move_unhappy" => (n_unhappy <= idx - 1 /\ idx <= Len(people) + 1)
       /\ (Turn /\ pc' = "move_unhappy") =>
            /\ idx' = idx + 1
            /\ (n_unhappy' = n_unhappy + 1) <=> BelowThreshold(idx)
            /\ \/ /\ n_unhappy' = n_unhappy + 1
                  /\ people'[idx].home # people[idx].home
                  /\ \A k \in 1..Len(people) : k # idx => people'[k] = people[k]
               \/ /\ n_unhappy' = n_unhappy
                  /\ people' = people
                  /\ homes' = homes
                  /\ empty_homes' = empty_homes
       /\ (pc = "move_unhappy" /\ pc' \in {"while", "done"}) =>
            /\ idx = Len(people) + 1
            /\ ret' = n_unhappy
            /\ ret' \in 0..Len(people)
            /\ people' = people
            /\ homes' = homes]_vars

\* a pass has returned after relocating some of the persons and leaving others
C14_Witness ==
    /\ pc \in {"while", "done"}
    /\ ret >= 2
    /\ ret < Len(people)

(***************************************************************************)
(* C15. Adjacency is computed once and frozen: find_neighbors is entered   *)
(* only from the end of populate_homes, when all homes of the grid exist   *)
(* and every neighbors_list is still empty, and it is never entered again; *)
(* no other step, and so no sequence of move_unhappy passes, changes a     *)
(* home's neighbors_list or the set of addresses.                          *)
(***************************************************************************)
C15_AdjacencyFrozen ==
    [][/\ pc' = "find_neighbors" => pc = "populate_loop"
       /\ pc = "find_neighbors" =>
            /\ pc' = "constructed"
            /\ DOMAIN homes = Rectangle
            /\ \A a \in DOMAIN homes : homes[a].neighbors_list = <<>>
       /\ DOMAIN homes' = DOMAIN homes
       /\ pc # "find_neighbors" =>
            \A a \in DOMAIN homes :
                homes'[a].neighbors_list = homes[a].neighbors_list]_vars

\* passes of make_plots and of a direct call have relocated persons of a city
\* whose homes have neighbours
C15_Witness ==
    /\ Relocated
    /\ counter >= 2
    /\ calls >= 1
    /\ \E a \in DOMAIN homes : Len(homes[a].neighbors_list) >= 2

(***************************************************************************)
(* C16. Degenerate dimensions: with nx <= 0 or ny <= 0 nothing raises, the *)
(* city has no homes, no people and an empty vacancy pool (so no random    *)
(* draw is ever made), and every move_unhappy() returns 0.                 *)
(***************************************************************************)
Degenerate == nx <= 0 \/ ny <= 0

C16_DegenerateDimensions ==
    Degenerate =>
        /\ pc # "fault"
        /\ fault = "none"
        /\ DOMAIN homes = {}
        /\ people = <<>>
        /\ empty_homes = <<>>
        /\ n_unhappy = 0
        /\ ret \in {-1, 0}
        /\ (pc = "done" \/ (pc = "while" /\ counter > 0)) => ret = 0

\* a city of negative width and positive height was constructed, make_plots
\* ran on it and a direct move_unhappy() returned
C16_Witness ==
    /\ nx < 0
    /\ ny > 0
    /\ pc = "done"
    /\ counter = 1
    /\ calls >= 1
    /\ ret = 0

(***************************************************************************)
(* C17. A relocated person never lands on the home it just left: the       *)
(* destination is taken out of the vacancy pool while the person's home is *)
(* not yet in it; after the relocation the new home differs from the old   *)
(* one and is no longer in the pool, and the old home is vacant and is the *)
(* pool's last entry.                                                      *)
(***************************************************************************)
C17_NeverBackToOldHome ==
    [][(Turn /\ pc' = "move_unhappy" /\ n_unhappy' = n_unhappy + 1) =>
          LET old == people[idx].home
              new == people'[idx].home
          IN  /\ old \notin Listed
              /\ new \in Listed
              /\ new # old
              /\ new \notin Listed'
              /\ old \in Listed'
              /\ homes'[old].occupant = None
              /\ Len(empty_homes') = Len(empty_homes)
              /\ empty_homes'[Len(empty_homes')] = old]_vars

\* a relocation was made in a city with a choice of vacant homes; the home
\* left last ends the pool and is vacant
C17_Witness ==
    /\ Relocated
    /\ Len(empty_homes) >= 2
    /\ homes[empty_homes[Len(empty_homes)]].occupant = None
    /\ counter >= 2

(***************************************************************************)
(* C18. Population conservation: once the city is constructed, no step     *)
(* changes the length of the people list, any person's group or            *)
(* happiness_threshold, the number of persons of any group, or             *)
(* len(empty_homes), which is nx*ny minus the number of persons.           *)
(***************************************************************************)
C18_PopulationConserved ==
    [][Constructed =>
          /\ Len(people') = Len(people)
          /\ \A k \in 1..Len(people) :
                /\ people'[k].group = people[k].group
                /\ people'[k].happiness_threshold = people[k].happiness_threshold
          /\ \A g \in 0..(ngroups - 1) : GroupSize(g)' = GroupSize(g)
          /\ Len(empty_homes') = Len(empty_homes)
          /\ Len(empty_homes) = nx * ny - Len(people)
          /\ Len(empty_homes') = nx * ny - Len(people')]_vars

\* persons of two groups have been relocated over several passes of
\* make_plots and one direct call
C18_Witness ==
    /\ pc = "done"
    /\ calls >= 1
    /\ counter >= 2
    /\ ret > 0
    /\ GroupSize(0) > 0
    /\ GroupSize(1) > 0

====
